---- MODULE Spec2Model ----
(***************************************************************************)
(* Personalized expense predictor (server/ml): the per-user model store,   *)
(* the transaction log, the retraining policy, training, and the three     *)
(* prediction paths (base predictor, personalized main path, personalized  *)
(* base-fallback path).                                                    *)
(*                                                                         *)
(* Representation.  Python floats that carry money are fixed-point         *)
(* integers in thousandths (Unit == 1000), so that every multiplier of the *)
(* code (0.8, 1.2, 1.3, 0.9, 0.3, 1.5, 0.01, 0.5, 0.1, 1.05) is exact on   *)
(* the whole-unit inputs drawn below.  Blend weights are in tenths.  The   *)
(* keras regressor and the sklearn scaler are opaque: a regressor is an    *)
(* integer weight w and a scaler an integer shift s, with ModelPredict and *)
(* Transform as their predict/transform.  An artifact file is a record     *)
(* [st, w]: st is "ok", "missing" or "corrupt" (exists but load raises).   *)
(***************************************************************************)
EXTENDS Integers, Sequences, FiniteSets, TLC

VARIABLES base, disk, inst, now, adds, ret

vars == <<base, disk, inst, now, adds, ret>>

\* ------------------------------------------------------------------------
\* Numbers
\* ------------------------------------------------------------------------

\* Fixed-point scale of a float amount (thousandths).
Unit == 1000

\* Blend weights are tenths: 1.0 is 10.
WeightOne == 10

\* json null / Python None (last_trained, the performance metrics).
Null == -1
\* pandas NaN: the _id of a row that has none.
NaN == -1

\* The clock counts half days; timedelta.days is the whole days of a difference.
TicksPerDay == 2

Max(a, b) == IF a >= b THEN a ELSE b
Min(a, b) == IF a <= b THEN a ELSE b

\* x * (num/den), for the float multipliers of the code.
Mul(x, num, den) == (x * num) \div den

\* numpy.clip(x, lo, hi) == minimum(maximum(x, lo), hi): with lo > hi the result is hi.
NpClip(x, lo, hi) == Min(Max(x, lo), hi)

\* ------------------------------------------------------------------------
\* Artifacts
\* ------------------------------------------------------------------------

Missing == [st |-> "missing", w |-> 0]
Corrupt == [st |-> "corrupt", w |-> 0]
Ok(w) == [st |-> "ok", w |-> w]

\* Path.exists()
Exists(a) == a.st # "missing"
\* tf.keras.models.load_model / joblib.load succeed
Loads(a) == a.st = "ok"

\* Regressors train_model.py can produce, and the one scaler it fits.
BaseRegressors == {0, 10, 30}
BaseScalers == {100000}
\* Regressors model.fit can leave in the user's model.
FitRegressors == {12}

\* scaler.transform(input_data): the opaque affine transform, here a shift.
Transform(s, obs) == [i \in 1..4 |-> IF i = 3 THEN obs[i] ELSE obs[i] - s]

\* model.predict(scaled_input)[0][0]: the opaque regressor.
ModelPredict(w, x) == Mul(x[2], w, 10) + x[3]

\* ------------------------------------------------------------------------
\* Results of a call
\* ------------------------------------------------------------------------

\* A prediction: what is returned (a float, None, or sys.exit), the value before
\* the clip, and the path that produced it.
Float(v, raw, path) == [kind |-> "float", val |-> v, raw |-> raw, path |-> path]
PyNone(path) == [kind |-> "None", val |-> 0, raw |-> 0, path |-> path]
SysExit == [kind |-> "exit", val |-> 1, raw |-> 0, path |-> "base"]
Raised == [kind |-> "raise", val |-> 0, raw |-> 0, path |-> "main"]

\* ------------------------------------------------------------------------
\* Bounds post-processing, one definition per place in the code
\* ------------------------------------------------------------------------

\* expense_predictor.py 70-93: the bounds of ExpensePredictor.predict.
BaseBounds(expenses, month, income) ==
    LET lo0 == Mul(expenses, 8, 10)
        hi0 == Mul(expenses, 12, 10)
        hi1 == IF 10 <= month /\ month <= 12 THEN Mul(expenses, 13, 10) ELSE hi0
        lo1 == IF ~(10 <= month /\ month <= 12) /\ 1 <= month /\ month <= 2
               THEN Mul(expenses, 9, 10) ELSE lo0
    IN IF income > 0
       THEN [lo |-> Max(lo1, Max(Mul(income, 1, 100), Mul(expenses, 5, 10))),
             hi |-> Min(hi1, Min(Mul(income, 3, 10), Mul(expenses, 15, 10)))]
       ELSE [lo |-> lo1, hi |-> hi1]

\* personalized_model.py 316-331: the bounds of the personalized main path.
PersonalBounds(expenses, month, income) ==
    LET lo0 == Mul(expenses, 8, 10)
        hi0 == Mul(expenses, 12, 10)
        hi1 == IF 10 <= month /\ month <= 12 THEN Mul(expenses, 13, 10) ELSE hi0
        lo1 == IF ~(10 <= month /\ month <= 12) /\ 1 <= month /\ month <= 2
               THEN Mul(expenses, 9, 10) ELSE lo0
    IN IF income > 0
       THEN [lo |-> Max(lo1, Max(Mul(income, 1, 100), Mul(expenses, 5, 10))),
             hi |-> Min(hi1, Min(Mul(income, 3, 10), Mul(expenses, 15, 10)))]
       ELSE [lo |-> lo1, hi |-> hi1]

\* Faulty variant of FallbackBounds: the festival season also raises the lower bound.
FallbackBoundsBothSeasons(expenses, month, income) ==
    LET lo0 == Mul(expenses, 8, 10)
        hi0 == Mul(expenses, 12, 10)
        hi1 == IF 10 <= month /\ month <= 12 THEN Mul(expenses, 13, 10) ELSE hi0
        lo1 == IF (10 <= month /\ month <= 12) \/ (1 <= month /\ month <= 2)
               THEN Mul(expenses, 9, 10) ELSE lo0
    IN IF income > 0
       THEN [lo |-> Max(lo1, Max(Mul(income, 1, 100), Mul(expenses, 5, 10))),
             hi |-> Min(hi1, Min(Mul(income, 3, 10), Mul(expenses, 15, 10)))]
       ELSE [lo |-> lo1, hi |-> hi1]

\* personalized_model.py 355-368: the bounds of the base-fallback path.
FallbackBounds(expenses, month, income) ==
    LET lo0 == Mul(expenses, 8, 10)
        hi0 == Mul(expenses, 12, 10)
        hi1 == IF 10 <= month /\ month <= 12 THEN Mul(expenses, 13, 10) ELSE hi0
        lo1 == IF ~(10 <= month /\ month <= 12) /\ 1 <= month /\ month <= 2
               THEN Mul(expenses, 9, 10) ELSE lo0
    IN IF income > 0
       THEN [lo |-> Max(lo1, Max(Mul(income, 1, 100), Mul(expenses, 5, 10))),
             hi |-> Min(hi1, Min(Mul(income, 3, 10), Mul(expenses, 15, 10)))]
       ELSE [lo |-> lo1, hi |-> hi1]

\* ------------------------------------------------------------------------
\* Prediction
\* ------------------------------------------------------------------------

\* An observation is <<income, expenses, month, savings>>.

\* expense_predictor.py 14-28 and 30-107, as main() runs them (109-131): a missing
\* or unloadable artifact, a non-positive income or a month outside 1..12 ends in
\* sys.exit(1); expenses <= 0 are replaced by max(income*0.1, 1000).
BasePredictorPredict(b, obs) ==
    IF ~Exists(b.model) \/ ~Loads(b.model) \/ ~Exists(b.scaler) \/ ~Loads(b.scaler)
    THEN SysExit
    ELSE IF obs[1] <= 0 THEN SysExit
    ELSE LET expenses == IF obs[2] <= 0 THEN Max(Mul(obs[1], 1, 10), 1000 * Unit)
                         ELSE obs[2]
         IN IF obs[3] < 1 \/ obs[3] > 12 THEN SysExit
            ELSE LET input == <<obs[1], expenses, obs[3], obs[4]>>
                     raw == ModelPredict(b.model.w, Transform(b.scaler.w, input))
                     bd == BaseBounds(expenses, obs[3], obs[1])
                 IN Float(NpClip(raw, bd.lo, bd.hi), raw, "base")

\* personalized_model.py 338-374: the except branch of predict. With both base
\* files present a load error is caught by the inner bare except (expenses*1.05);
\* with a base file missing the if has no else and the method falls off its end.
PredictFallback(b, obs) ==
    IF Exists(b.model) /\ Exists(b.scaler)
    THEN IF Loads(b.model) /\ Loads(b.scaler)
         THEN LET raw == ModelPredict(b.model.w, Transform(b.scaler.w, obs))
                  bd == FallbackBounds(obs[2], obs[3], obs[1])
              IN Float(NpClip(raw, bd.lo, bd.hi), raw, "fallback")
         ELSE Float(Mul(obs[2], 105, 100), Mul(obs[2], 105, 100), "heuristic")
    ELSE PyNone("heuristic")

\* personalized_model.py 281-336: the try branch of predict; "raise" stands for
\* an exception that reaches the except branch.
PredictMain(md, d, b, obs) ==
    IF ~Loads(d.model) \/ ~Loads(d.scaler) THEN Raised
    ELSE LET personal == ModelPredict(d.model.w, Transform(d.scaler.w, obs))
             blends == md.base_model_weight > 0 /\ Exists(b.model) /\ Exists(b.scaler)
         IN IF blends /\ ~(Loads(b.model) /\ Loads(b.scaler))
            THEN Raised
            ELSE LET basep == ModelPredict(b.model.w, Transform(b.scaler.w, obs))
                     prediction ==
                        IF blends
                        THEN (basep * md.base_model_weight
                              + personal * md.personal_model_weight) \div WeightOne
                        ELSE personal
                     bd == PersonalBounds(obs[2], obs[3], obs[1])
                 IN Float(NpClip(prediction, bd.lo, bd.hi), prediction, "main")

\* personalized_model.py 281-374: PersonalizedExpensePredictor.predict.
PersonalizedPredict(md, d, b, obs) ==
    LET r == PredictMain(md, d, b, obs)
    IN IF r.kind = "raise" THEN PredictFallback(b, obs) ELSE r

\* ------------------------------------------------------------------------
\* Model store: metadata, bootstrap from the base model, transaction log
\* ------------------------------------------------------------------------

\* personalized_model.py 42-53 (created_at, which nothing reads, is left out; the
\* two metrics are one field).
DefaultMetadata ==
    [last_trained |-> Null, training_count |-> 0, transaction_count |-> 0,
     base_model_weight |-> WeightOne, personal_model_weight |-> 0, metrics |-> Null]

NoFile == [exists |-> FALSE, hasId |-> FALSE, rows |-> <<>>]
NoMeta == [exists |-> FALSE, md |-> DefaultMetadata]

\* A user directory nothing was written to yet.
EmptyDir == [model |-> Missing, scaler |-> Missing, data |-> NoFile, meta |-> NoMeta]

\* personalized_model.py 65-86: copy the base regressor and scaler; the result
\* is the directory and the method's return value.
InitializeFromBaseModel(d, b) ==
    IF ~Exists(b.model) \/ ~Exists(b.scaler) THEN [d |-> d, ok |-> FALSE]
    ELSE IF ~Loads(b.model) THEN [d |-> d, ok |-> FALSE]
    ELSE IF ~Loads(b.scaler) THEN [d |-> [d EXCEPT !.model = b.model], ok |-> FALSE]
    ELSE [d |-> [d EXCEPT !.model = b.model, !.scaler = b.scaler], ok |-> TRUE]

\* personalized_model.py 35-55: load the metadata, or create and save the default.
LoadMetadata(d) ==
    IF d.meta.exists THEN [d |-> d, md |-> d.meta.md]
    ELSE [d |-> [d EXCEPT !.meta = [exists |-> TRUE, md |-> DefaultMetadata]],
          md |-> DefaultMetadata]

\* personalized_model.py 16-33: __init__; booted is the return value of
\* _initialize_from_base_model, which __init__ drops ("skipped" when not called).
Construct(d, b) ==
    LET l == LoadMetadata(d)
    IN IF ~Exists(l.d.model) \/ ~Exists(l.d.scaler)
       THEN LET i == InitializeFromBaseModel(l.d, b)
            IN [d |-> i.d, md |-> l.md, booted |-> IF i.ok THEN "copied" ELSE "failed"]
       ELSE [d |-> l.d, md |-> l.md, booted |-> "skipped"]

\* DataFrame.drop_duplicates(subset=['_id']): the first row of each _id is kept,
\* and NaN equals NaN here. KeptRows is the kept rows among rows lo..hi.
RECURSIVE KeptRows(_, _, _)
KeptRows(rows, lo, hi) ==
    IF lo > hi THEN <<>>
    ELSE IF lo = hi
    THEN IF \A j \in 1..(lo - 1) : rows[j].id # rows[lo].id THEN <<rows[lo]>> ELSE <<>>
    ELSE LET mid == (lo + hi) \div 2
         IN KeptRows(rows, lo, mid) \o KeptRows(rows, mid + 1, hi)

DropDuplicates(rows) == KeptRows(rows, 1, Len(rows))

\* personalized_model.py 95-105: the data file after add_transaction_data(df).
\* A frame is [hasId, rows]: hasId says that it has an _id column. Integer ids,
\* amounts and dates are unchanged by to_csv/read_csv, and NaN is written as an
\* empty field and read back as NaN.
WriteData(data, df) ==
    IF data.exists
    THEN LET hasId == data.hasId \/ df.hasId
             combined == data.rows \o df.rows
         IN [exists |-> TRUE, hasId |-> hasId,
             rows |-> IF hasId THEN DropDuplicates(combined) ELSE combined]
    ELSE [exists |-> TRUE, hasId |-> df.hasId, rows |-> df.rows]

\* personalized_model.py 113-122
CountTransactions(data) == IF ~data.exists THEN 0 ELSE Len(data.rows)

\* personalized_model.py 88-111: add_transaction_data; the result is the
\* directory and the instance's metadata.
AddTransactionData(md, d, df) ==
    LET data == WriteData(d.data, df)
        m == [md EXCEPT !.transaction_count = CountTransactions(data)]
    IN [d |-> [d EXCEPT !.data = data, !.meta = [exists |-> TRUE, md |-> m]], md |-> m]

\* Faulty variant of ShouldRetrain: the transaction threshold is exclusive.
ShouldRetrainExclusive(md, data, t, min_transactions, min_days) ==
    IF ~data.exists THEN FALSE
    ELSE IF CountTransactions(data) <= min_transactions THEN FALSE
    ELSE IF md.last_trained = Null THEN TRUE
    ELSE ((t - md.last_trained) \div TicksPerDay) >= min_days

\* personalized_model.py 124-140: should_retrain at time t.
ShouldRetrain(md, data, t, min_transactions, min_days) ==
    IF ~data.exists THEN FALSE
    ELSE IF CountTransactions(data) < min_transactions THEN FALSE
    ELSE IF md.last_trained = Null THEN TRUE
    ELSE ((t - md.last_trained) \div TicksPerDay) >= min_days

\* ------------------------------------------------------------------------
\* Transaction aggregator and training
\* ------------------------------------------------------------------------

\* A row is [id, type, amount, year, month]; type is "income" or "expense".

\* personalized_model.py 153-155: the year_month key '%Y-%m' of a row's date.
\* Strings of that form (four-digit years) sort as the numbers YYYYMM do.
YearMonth(r) == r.year * 100 + r.month

\* personalized_model.py 158-160: the sum of amount over one (year_month, type)
\* group; RangeSum is the group's sum over rows lo..hi.
RECURSIVE RangeSum(_, _, _, _, _)
RangeSum(rows, ym, type, lo, hi) ==
    IF lo > hi THEN 0
    ELSE IF lo = hi
    THEN IF YearMonth(rows[lo]) = ym /\ rows[lo].type = type THEN rows[lo].amount ELSE 0
    ELSE LET mid == (lo + hi) \div 2
         IN RangeSum(rows, ym, type, lo, mid) + RangeSum(rows, ym, type, mid + 1, hi)

GroupSum(rows, ym, type) == RangeSum(rows, ym, type, 1, Len(rows))

\* personalized_model.py 182: sort_values('year_month'), over the distinct keys.
RECURSIVE SortedKeys(_)
SortedKeys(S) ==
    IF S = {} THEN <<>>
    ELSE LET m == CHOOSE x \in S : \A y \in S : x <= y
         IN <<m>> \o SortedKeys(S \ {m})

\* Faulty variant of MonthlyPivot: the months are ordered by calendar month, not by year_month.
MonthlyPivotByMonth(rows) ==
    LET keys == SortedKeys({(YearMonth(rows[i]) % 100) * 10000 + rows[i].year
                            : i \in 1..Len(rows)})
    IN [k \in 1..Len(keys) |->
          LET ym == (keys[k] % 10000) * 100 + keys[k] \div 10000
              income == GroupSum(rows, ym, "income")
              expense == GroupSum(rows, ym, "expense")
          IN [year_month |-> ym, month |-> ym % 100, income |-> income,
              expense |-> expense, savings |-> income - expense]]

\* personalized_model.py 158-182: one row per year_month in key order, with the
\* totals of its income and expense rows (fill_value=0 for a type it lacks)
\* and savings = income - expense.
MonthlyPivot(rows) ==
    LET keys == SortedKeys({YearMonth(rows[i]) : i \in 1..Len(rows)})
    IN [k \in 1..Len(keys) |->
          LET income == GroupSum(rows, keys[k], "income")
              expense == GroupSum(rows, keys[k], "expense")
          IN [year_month |-> keys[k], month |-> keys[k] % 100, income |-> income,
              expense |-> expense, savings |-> income - expense]]

\* What prepare_training_data returns: (None, None), or the pairs
\* <<features, target>> of (X, y).
NoTrainingData == [none |-> TRUE, pairs |-> <<>>]

\* personalized_model.py 142-209: prepare_training_data.
PrepareTrainingData(data) ==
    IF ~data.exists THEN NoTrainingData
    ELSE IF \/ ~\E i \in 1..Len(data.rows) : data.rows[i].type = "income"
            \/ ~\E i \in 1..Len(data.rows) : data.rows[i].type = "expense"
         THEN NoTrainingData
    ELSE LET mp == MonthlyPivot(data.rows)
             pairs == [i \in 1..(Len(mp) - 1) |->
                         <<<<mp[i].income, mp[i].expense, mp[i].month, mp[i].savings>>,
                           mp[i + 1].expense>>]
         IN IF Len(mp) < 2 THEN NoTrainingData
            ELSE [none |-> FALSE, pairs |-> pairs]

\* personalized_model.py 251-261: the blend weights after a training.
UpdateWeights(md) ==
    IF md.transaction_count > 100
    THEN [md EXCEPT !.base_model_weight = 3, !.personal_model_weight = 7]
    ELSE IF md.transaction_count > 50
    THEN [md EXCEPT !.base_model_weight = 5, !.personal_model_weight = 5]
    ELSE IF md.transaction_count > 20
    THEN [md EXCEPT !.base_model_weight = 7, !.personal_model_weight = 3]
    ELSE md

\* Where an exception can be raised inside train_model's try block besides the
\* loads, which fail on the artifacts' state: model.fit, model.save, _save_metadata.
TrainFaults == {"none", "fit", "save_model", "save_meta"}

\* personalized_model.py 211-279: train_model at time t; xy is what
\* prepare_training_data returned (213) and fitted the regressor model.fit
\* leaves. The result is the directory, the instance's metadata, the return
\* value and why it is False. model.save (245) precedes the metadata update
\* (248-270) and _save_metadata (272); a failed write leaves its file as it was.
TrainModel(md, d, xy, t, fitted, fault) ==
    IF xy.none \/ Len(xy.pairs) < 3
    THEN [d |-> d, md |-> md, ok |-> FALSE, why |-> "insufficient"]
    ELSE IF ~Loads(d.model) \/ ~Loads(d.scaler)
    THEN [d |-> d, md |-> md, ok |-> FALSE, why |-> "load"]
    ELSE IF fault = "fit" \/ fault = "save_model"
    THEN [d |-> d, md |-> md, ok |-> FALSE, why |-> fault]
    ELSE LET saved == [d EXCEPT !.model = Ok(fitted)]
                m == [UpdateWeights([md EXCEPT !.last_trained = t,
                                               !.training_count = @ + 1])
                      EXCEPT !.metrics = fitted]
            IN IF fault = "save_meta"
               THEN [d |-> saved, md |-> m, ok |-> FALSE, why |-> fault]
               ELSE [d |-> [saved EXCEPT !.meta = [exists |-> TRUE, md |-> m]],
                     md |-> m, ok |-> TRUE, why |-> "none"]


\* ------------------------------------------------------------------------
\* Inputs
\* ------------------------------------------------------------------------

\* The processes that hold a PersonalizedExpensePredictor for the user.
Procs == {"p1"}

\* add_transaction_data calls in a run, trainings of a user, and the clock's end.
MaxAdds == 2
MaxStoreAdds == 3
MaxTrainings == 2
MaxClock == 14

\* Clock steps in half days: six and a half days, seven days.
TickSteps == {13, 14}

Row(id, type, amount, year, month) ==
    [id |-> id, type |-> type, amount |-> amount, year |-> year, month |-> month]

\* Rows lo..hi of a generated log: ids lo..hi, income and expense rows
\* alternating, two rows per month, months January to May 2024 in turn.
GenRows(lo, hi) ==
    [k \in 1..(hi - lo + 1) |->
        LET i == lo + k - 1
        IN Row(i, IF i % 2 = 1 THEN "income" ELSE "expense", 1000 + i, 2024,
               (((i - 1) \div 2) % 5) + 1)]

\* A frame is [hasId, rows].
Frame(hasId, rows) == [hasId |-> hasId, rows |-> rows]

\* The frames of the life cycle, all with an _id column: ids 1..12, 12..20,
\* 12..21, 13..51 and 13..101, so that logs of 9, 10, 12, 20, 21, 51 and 101
\* rows arise.
Batches ==
    << Frame(TRUE, GenRows(1, 12)), Frame(TRUE, GenRows(12, 20)),
       Frame(TRUE, GenRows(12, 21)), Frame(TRUE, GenRows(13, 51)),
       Frame(TRUE, GenRows(13, 101)) >>

\* Small frames for the log itself: with an _id column (one repeating an _id
\* of another frame, one holding an _id twice, one with a row whose _id is
\* missing) and without.
StoreBatches ==
    << Frame(TRUE, << Row(1, "income", 100, 2024, 1), Row(2, "expense", 60, 2024, 1) >>),
       Frame(TRUE, << Row(2, "expense", 70, 2024, 2), Row(3, "income", 110, 2024, 2) >>),
       Frame(TRUE, << Row(4, "income", 120, 2024, 3), Row(4, "expense", 80, 2024, 3) >>),
       Frame(TRUE, << Row(5, "income", 130, 2024, 4), Row(NaN, "expense", 90, 2024, 4) >>),
       Frame(FALSE, << Row(NaN, "income", 140, 2024, 5), Row(NaN, "expense", 95, 2024, 5) >>) >>

\* (min_transactions, min_days) of a should_retrain call: the defaults (124),
\* update_user_model's (update_user_model.py 29), and others.
RetrainArgs == {<<20, 7>>, <<10, 7>>, <<21, 0>>}

\* Observations <<income, expenses, month, savings>> in thousandths.
Obs(income, expenses, month, savings) ==
    <<income * Unit, expenses * Unit, month, savings * Unit>>

Observations ==
    {Obs(i, e, m, 10000) : i \in {0, 3000, 50000}, e \in {0, 500, 4000}, m \in {1, 5, 11}}
    \cup {Obs(50000, -100, 5, 10000), Obs(50000, 4000, 0, 10000),
          Obs(50000, 4000, 13, 10000)}

\* ------------------------------------------------------------------------
\* State
\* ------------------------------------------------------------------------
\* base  the base model's two artifacts [model, scaler]
\* disk  the user's directory [model, scaler, data, meta]
\* inst  per process: whether it holds an instance, and the instance's self.metadata
\* now   the clock, in half days
\* adds  the add_transaction_data calls made so far
\* ret   the last call: its name, its arguments and what it returned

\* pc is where the process stands inside a call that other processes can
\* interleave with ("idle" outside of one), held the regressor it has in memory.
NoInstance == [alive |-> FALSE, metadata |-> DefaultMetadata, pc |-> "idle", held |-> 0]

Ret(op, kind, val, path, args, pairs) ==
    [op |-> op, kind |-> kind, val |-> val, raw |-> 0, path |-> path, args |-> args,
     pairs |-> pairs]

\* The last call was a prediction r of observation obs.
RetPrediction(op, r, obs) ==
    [op |-> op, kind |-> r.kind, val |-> r.val, raw |-> r.raw, path |-> r.path,
     args |-> obs, pairs |-> <<>>]

Start == Ret("start", "none", 0, "none", <<>>, <<>>)

\* The base artifacts as a deployment can hold them: train_model.py 59 and 91
\* write them, before that they are missing, and a file can be unreadable.
BaseStates ==
    {[model |-> Ok(w), scaler |-> Ok(s)] : w \in BaseRegressors, s \in BaseScalers}
    \cup {[model |-> Missing, scaler |-> Missing], [model |-> Ok(10), scaler |-> Missing],
          [model |-> Ok(10), scaler |-> Corrupt], [model |-> Corrupt, scaler |-> Ok(100000)]}

LifeBaseStates ==
    {[model |-> Ok(10), scaler |-> Ok(100000)], [model |-> Missing, scaler |-> Missing]}

Init ==
    /\ base \in LifeBaseStates
    /\ disk = EmptyDir
    /\ inst = [p \in Procs |-> NoInstance]
    /\ now = 0
    /\ adds = 0
    /\ ret = Start

\* ------------------------------------------------------------------------
\* Actions
\* ------------------------------------------------------------------------

\* PersonalizedExpensePredictor(user_id)
New(p) ==
    /\ ~inst[p].alive
    /\ LET c == Construct(disk, base)
       IN /\ disk' = c.d
          /\ inst' = [inst EXCEPT ![p] = [NoInstance EXCEPT !.alive = TRUE,
                                                             !.metadata = c.md]]
          /\ ret' = Ret("init", "object", 0, c.booted, <<>>, <<>>)
    /\ UNCHANGED <<base, now, adds>>

\* The process ends, or drops the instance.
Release(p) ==
    /\ inst[p].alive
    /\ inst' = [inst EXCEPT ![p] = NoInstance]
    /\ ret' = Ret("release", "none", 0, "none", <<>>, <<>>)
    /\ UNCHANGED <<base, disk, now, adds>>

\* model.add_transaction_data(menu[b]), while fewer than max calls were made
Add(p, menu, b, max) ==
    /\ inst[p].alive
    /\ adds < max
    /\ LET a == AddTransactionData(inst[p].metadata, disk, menu[b])
       IN /\ disk' = a.d
          /\ inst' = [inst EXCEPT ![p].metadata = a.md]
    /\ adds' = adds + 1
    /\ ret' = Ret("add", "bool", 1, "none", <<b>>, <<>>)
    /\ UNCHANGED <<base, now>>

\* model.should_retrain(min_transactions, min_days)
Retrain(p, a) ==
    /\ inst[p].alive
    /\ ret' = Ret("should_retrain", "bool",
                  IF ShouldRetrain(inst[p].metadata, disk.data, now, a[1], a[2])
                  THEN 1 ELSE 0,
                  "none", a, <<>>)
    /\ UNCHANGED <<base, disk, inst, now, adds>>

\* model.train_model()
Train(p) ==
    /\ inst[p].alive
    /\ inst[p].metadata.training_count < MaxTrainings
    /\ LET xy == PrepareTrainingData(disk.data)
       IN \E fitted \in FitRegressors : \E fault \in TrainFaults :
            LET t == TrainModel(inst[p].metadata, disk, xy, now, fitted, fault)
            IN /\ disk' = t.d
               /\ inst' = [inst EXCEPT ![p].metadata = t.md]
               /\ ret' = Ret("train", "bool", IF t.ok THEN 1 ELSE 0, t.why, <<>>, <<>>)
    /\ UNCHANGED <<base, now, adds>>

\* model.predict(income, expenses, month, savings)
Predict(p, obs) ==
    /\ inst[p].alive
    /\ LET r == PersonalizedPredict(inst[p].metadata, disk, base, obs)
       IN ret' = RetPrediction("predict", r, obs)
    /\ UNCHANGED <<base, disk, inst, now, adds>>

\* personalized_predict.py 10-28: predict(user_id, ...) in a process of its own:
\* construct, predict, print the prediction; kind and val are what is printed.
PredictEntry(obs) ==
    /\ LET c == Construct(disk, base)
           r == PersonalizedPredict(c.md, c.d, base, obs)
       IN /\ disk' = c.d
          /\ ret' = RetPrediction("predict_entry", r, obs)
    /\ UNCHANGED <<base, inst, now, adds>>

\* expense_predictor.py 109-131: the base predictor's process.
BasePredict(obs) ==
    /\ LET r == BasePredictorPredict(base, obs)
       IN ret' = RetPrediction("predict_base", r, obs)
    /\ UNCHANGED <<base, disk, inst, now, adds>>

\* model.prepare_training_data()
Prepare(p) ==
    /\ inst[p].alive
    /\ LET xy == PrepareTrainingData(disk.data)
       IN ret' = Ret("prepare", IF xy.none THEN "None" ELSE "pairs", 0, "none",
                     <<>>, xy.pairs)
    /\ UNCHANGED <<base, disk, inst, now, adds>>

\* train_model.py 59 and 91: the training script writes both base artifacts.
TrainBaseModel(w, s) ==
    /\ base # [model |-> Ok(w), scaler |-> Ok(s)]
    /\ base' = [model |-> Ok(w), scaler |-> Ok(s)]
    /\ ret' = Ret("train_base", "none", 0, "none", <<>>, <<>>)
    /\ UNCHANGED <<disk, inst, now, adds>>

\* Time passes.
Tick(d) ==
    /\ now + d <= MaxClock
    /\ now' = now + d
    /\ ret' = Ret("tick", "none", 0, "none", <<>>, <<>>)
    /\ UNCHANGED <<base, disk, inst, adds>>

\* ------------------------------------------------------------------------
\* The life cycle of a user's model
\* ------------------------------------------------------------------------

Next ==
    \/ \E p \in Procs : New(p)
    \/ \E p \in Procs : Release(p)
    \/ \E p \in Procs : \E b \in 1..Len(Batches) : Add(p, Batches, b, MaxAdds)
    \/ \E p \in Procs : \E a \in RetrainArgs : Retrain(p, a)
    \/ \E p \in Procs : Train(p)
    \/ \E d \in TickSteps : Tick(d)

Spec == Init /\ [][Next]_vars

\* ------------------------------------------------------------------------
\* The transaction log
\* ------------------------------------------------------------------------

NextStore ==
    \/ \E p \in Procs : New(p)
    \/ \E p \in Procs : Release(p)
    \/ \E p \in Procs : \E b \in 1..Len(StoreBatches) : Add(p, StoreBatches, b, MaxStoreAdds)

SpecStore == Init /\ [][NextStore]_vars

\* ------------------------------------------------------------------------
\* Prediction, over the states the artifacts can be in
\* ------------------------------------------------------------------------

\* The metadata of a user: as created, or as one training left it with a log
\* of n rows (personalized_model.py 248-270).
TrainedMetadata(n) ==
    [UpdateWeights([DefaultMetadata EXCEPT !.transaction_count = n,
                                           !.last_trained = 0, !.training_count = 1])
     EXCEPT !.metrics = 12]

\* The user's directory: never written to, or with its metadata and log, and
\* with each artifact present, missing or unreadable.
UserDirs ==
    {EmptyDir} \cup
    {[model |-> m, scaler |-> s, data |-> NoFile,
      meta |-> [exists |-> TRUE, md |-> DefaultMetadata]] :
        m \in {Missing, Corrupt, Ok(10)}, s \in {Missing, Corrupt, Ok(100000)}} \cup
    {[model |-> m, scaler |-> s,
      data |-> [exists |-> TRUE, hasId |-> TRUE, rows |-> GenRows(1, n)],
      meta |-> [exists |-> TRUE, md |-> TrainedMetadata(n)]] :
        m \in {Corrupt, Ok(12)}, s \in {Ok(100000)}, n \in {21, 51, 101}}

InitPredict ==
    /\ base \in BaseStates
    /\ disk \in UserDirs
    /\ inst = [p \in Procs |-> NoInstance]
    /\ now = 0
    /\ adds = 0
    /\ ret = Start

NextPredict ==
    \/ \E p \in Procs : New(p)
    \/ \E p \in Procs : Release(p)
    \/ \E p \in Procs : \E obs \in Observations : Predict(p, obs)
    \/ \E obs \in Observations : PredictEntry(obs)
    \/ \E obs \in Observations : BasePredict(obs)
    \/ \E w \in BaseRegressors : \E s \in BaseScalers : TrainBaseModel(w, s)

SpecPredict == InitPredict /\ [][NextPredict]_vars

\* ------------------------------------------------------------------------
\* Claims about prediction (SpecPredict)
\* ------------------------------------------------------------------------

Income == ret.args[1]
Expenses == ret.args[2]
Month == ret.args[3]

\* The clamp range as the specification states it: [0.8, 1.2] of expenses; in
\* months 10..12 the upper bound is 1.3 of expenses, in months 1..2 the lower
\* bound is 0.9 of expenses; for a positive income the upper bound is capped by
\* 0.3 of income and 1.5 of expenses, the lower bound raised to 0.01 of income
\* and 0.5 of expenses.
ClampRange(expenses, month, income) ==
    LET lo == IF month \in 1..2 THEN Mul(expenses, 9, 10) ELSE Mul(expenses, 8, 10)
        hi == IF month \in 10..12 THEN Mul(expenses, 13, 10) ELSE Mul(expenses, 12, 10)
    IN IF income > 0
       THEN [lo |-> Max(Max(lo, Mul(income, 1, 100)), Mul(expenses, 5, 10)),
             hi |-> Min(Min(hi, Mul(income, 3, 10)), Mul(expenses, 15, 10))]
       ELSE [lo |-> lo, hi |-> hi]

InRange(v, r) == Min(r.lo, r.hi) <= v /\ v <= Max(r.lo, r.hi)

\* C1: the personalized prediction (the method and the entry point around it)
\* returns a number, whatever the state of the user's and the base artifacts.
C1_PredictReturnsNumber ==
    ret.op \in {"predict", "predict_entry"} => ret.kind = "float"

\* C2: with the user's regressor unreadable and the base artifacts readable,
\* the personalized predict returns what the base predictor returns for the
\* same observation (income > 0, month in 1..12, any expenses).
C2_FallbackEqualsBase ==
    (/\ ret.op = "predict"
     /\ ~Loads(disk.model) /\ Loads(base.model) /\ Loads(base.scaler)
     /\ Income > 0 /\ Month \in 1..12)
    => LET b == BasePredictorPredict(base, ret.args)
       IN ret.kind = b.kind /\ ret.val = b.val

\* C3: in the personalized predict an observation with income > 0 and
\* expenses <= 0 is predicted from max(income*0.1, 1000) as its expenses: the
\* value lies in the clamp range of the substituted expenses (upper bound
\* 6500 for income 50000 in month 11) and is not 0.
C3_ExpensesSubstituted ==
    (ret.op = "predict" /\ ret.kind = "float" /\ Income > 0 /\ Expenses <= 0)
    => LET r == ClampRange(Max(Mul(Income, 1, 10), 1000 * Unit), Month, Income)
       IN /\ InRange(ret.val, r)
          /\ ret.val # 0
          /\ (Income = 50000 * Unit /\ Month = 11) => r.hi = 6500 * Unit

\* C10: on every path that clips (base predictor, personalized main path,
\* personalized base fallback) and for expenses > 0, the value returned is the
\* value before the clip clamped into the clamp range of the specification,
\* which is the same on the three paths, and lies between its two bounds
\* whichever is the larger.
C10_ClampedIntoRange ==
    (/\ ret.op \in {"predict", "predict_entry", "predict_base"}
     /\ ret.kind = "float" /\ ret.path \in {"main", "fallback", "base"}
     /\ Expenses > 0)
    => LET r == ClampRange(Expenses, Month, Income)
       IN /\ InRange(ret.val, r)
          /\ r.lo <= r.hi =>
                ret.val = (IF ret.raw < r.lo THEN r.lo
                           ELSE IF ret.raw > r.hi THEN r.hi ELSE ret.raw)

\* C10 witnesses: a festival-month fallback prediction raised to the 0.8 lower
\* bound, and all three paths having clipped.
C10_Witness ==
    /\ ret.op = "predict" /\ ret.path = "fallback" /\ Month = 11 /\ Expenses > 0
    /\ ret.raw < ret.val /\ ret.val = Mul(Expenses, 8, 10)

\* ------------------------------------------------------------------------
\* Claims about the life cycle (Spec)
\* ------------------------------------------------------------------------

\* The persisted metadata (the default while metadata.json does not exist).
Persisted == disk.meta.md

\* The blend weights the threshold table assigns to a transaction count, for a
\* pair w = <<base, personal>> held before: >100 0.3/0.7, 51..100 0.5/0.5,
\* 21..50 0.7/0.3, otherwise unchanged.
TableWeights(count, w) ==
    IF count > 100 THEN <<3, 7>>
    ELSE IF count > 50 THEN <<5, 5>>
    ELSE IF count > 20 THEN <<7, 3>>
    ELSE w

WeightsOf(md) == <<md.base_model_weight, md.personal_model_weight>>

\* C4: a train call that returns failure leaves the user's persisted state as
\* it was: the regressor artifact and the persisted metadata (training count,
\* last-trained time, weights, metrics) are unchanged by the step.
C4_FailedTrainChangesNothing ==
    [][(ret'.op = "train" /\ ret'.val = 0)
       => (disk'.model = disk.model /\ disk'.scaler = disk.scaler
           /\ disk'.meta = disk.meta)]_vars

\* C5: a user state that an instance works on has the regressor+scaler pair:
\* construction either copies the base pair into the user's directory or
\* fails, so no live instance is left on a directory without the pair.
C5_InstanceHasPair ==
    \A p \in Procs :
        inst[p].alive => /\ Exists(disk.model)
                         /\ Exists(disk.scaler)
                         /\ (ret.op = "init" => ret.path # "failed")

\* C6: should_retrain(min_transactions, min_days) is false when the user's
\* transaction count is below min_transactions; otherwise true when
\* last_trained is unset; otherwise true exactly when the whole days since
\* last_trained are at least min_days.
C6_ShouldRetrainDecision ==
    ret.op = "should_retrain" =>
        \A p \in Procs : inst[p].alive =>
            LET md == inst[p].metadata
                days == (now - md.last_trained) \div TicksPerDay
            IN ret.val = (IF md.transaction_count < ret.args[1] THEN 0
                          ELSE IF md.last_trained = Null THEN 1
                          ELSE IF days >= ret.args[2] THEN 1 ELSE 0)

\* C6 witness: with enough transactions and a training six and a half days
\* ago, should_retrain(20, 7) has returned false.
C6_Witness ==
    /\ ret.op = "should_retrain" /\ ret.args = <<20, 7>> /\ ret.val = 0
    /\ \E p \in Procs :
          /\ inst[p].alive
          /\ inst[p].metadata.transaction_count >= 20
          /\ inst[p].metadata.last_trained # Null
          /\ now - inst[p].metadata.last_trained = 13

\* C7: the persisted weights change only in a successful train, and then to
\* the pair the threshold table assigns to the transaction count (unchanged
\* for a count of at most 20); the two weights always sum to 1.
C7_WeightsFollowTable ==
    [][/\ Persisted'.base_model_weight + Persisted'.personal_model_weight = WeightOne
       /\ WeightsOf(Persisted') =
             (IF ret'.op = "train" /\ ret'.val = 1
              THEN TableWeights(Persisted'.transaction_count, WeightsOf(Persisted))
              ELSE WeightsOf(Persisted))]_vars

\* ------------------------------------------------------------------------
\* Claims about the transaction log (SpecStore)
\* ------------------------------------------------------------------------

\* Every row of rows carries an identifier.
AllCarryId(rows) == \A i \in 1..Len(rows) : rows[i].id # NaN

\* The rows of rows whose identifier does not occur earlier in rows, in order.
FirstById(rows) ==
    LET F[i \in 0..Len(rows)] ==
          IF i = 0 THEN <<>>
          ELSE IF \E j \in 1..(i - 1) : rows[j].id = rows[i].id THEN F[i - 1]
          ELSE Append(F[i - 1], rows[i])
    IN F[Len(rows)]

\* C8: after an add_transaction_data call on records that carry an
\* identifier, the first call included, the persisted log is the old log
\* followed by the records, with only the first record of each identifier
\* kept and the order preserved, and the persisted transaction count is the
\* number of records in the log.
C8_DeduplicatedById ==
    [][(/\ ret'.op = "add"
        /\ StoreBatches[ret'.args[1]].hasId
        /\ AllCarryId(disk.data.rows) /\ AllCarryId(StoreBatches[ret'.args[1]].rows))
       => /\ disk'.data.rows = FirstById(disk.data.rows \o StoreBatches[ret'.args[1]].rows)
          /\ Persisted'.transaction_count = Len(disk'.data.rows)]_vars

\* ------------------------------------------------------------------------
\* The aggregator, over logs of whole months
\* ------------------------------------------------------------------------

\* The months of the logs, in date order, with the income and the expense
\* total of each.
AggMonths ==
    << [year |-> 2023, month |-> 12, income |-> 900, expense |-> 700],
       [year |-> 2024, month |-> 1, income |-> 1000, expense |-> 800],
       [year |-> 2024, month |-> 2, income |-> 1100, expense |-> 750],
       [year |-> 2024, month |-> 10, income |-> 1200, expense |-> 950] >>

\* What a log holds of a month: nothing, only its income, only its expense,
\* both, or both with the income in two records.
AggPlans == {"none", "income", "expense", "both", "split"}

\* The records of month k under a plan; a record's _id is its place in the
\* full log.
AggRows(k, plan) ==
    LET m == AggMonths[k]
        inc == Row(3 * k - 2, "income", m.income, m.year, m.month)
        inc1 == Row(3 * k - 2, "income", m.income - 300, m.year, m.month)
        inc2 == Row(3 * k - 1, "income", 300, m.year, m.month)
        exp == Row(3 * k, "expense", m.expense, m.year, m.month)
    IN CASE plan = "none" -> <<>>
         [] plan = "income" -> <<inc>>
         [] plan = "expense" -> <<exp>>
         [] plan = "both" -> <<inc, exp>>
         [] plan = "split" -> <<inc1, exp, inc2>>

\* The log of a choice of plans, months in date order or in reverse.
AggLog(plans, rev) ==
    IF rev
    THEN AggRows(4, plans[4]) \o AggRows(3, plans[3]) \o AggRows(2, plans[2])
         \o AggRows(1, plans[1])
    ELSE AggRows(1, plans[1]) \o AggRows(2, plans[2]) \o AggRows(3, plans[3])
         \o AggRows(4, plans[4])

\* The user's directory after the first instance was constructed and the
\* log was added in one add_transaction_data call.
AggDir(b, rows) ==
    LET c == Construct(EmptyDir, b)
    IN AddTransactionData(c.md, c.d, Frame(TRUE, rows)).d

InitAggregate ==
    /\ base \in LifeBaseStates
    /\ \E plans \in [1..4 -> AggPlans] : \E rev \in BOOLEAN :
          /\ AggLog(plans, rev) # <<>>
          /\ disk = AggDir(base, AggLog(plans, rev))
    /\ inst = [p \in Procs |-> NoInstance]
    /\ now = 0
    /\ adds = 1
    /\ ret = Start

NextAggregate ==
    \/ \E p \in Procs : New(p)
    \/ \E p \in Procs : Release(p)
    \/ \E p \in Procs : Prepare(p)

SpecAggregate == InitAggregate /\ [][NextAggregate]_vars

\* ------------------------------------------------------------------------
\* Claims about the aggregator (SpecAggregate)
\* ------------------------------------------------------------------------

Log == disk.data.rows

\* The month keys of the log, as year*100 + month.
LogKeys == {Log[i].year * 100 + Log[i].month : i \in 1..Len(Log)}

\* The total of the records of one type in the month of key k.
LogTotal(k, type) ==
    LET S[i \in 0..Len(Log)] ==
          IF i = 0 THEN 0
          ELSE S[i - 1] + (IF /\ Log[i].year * 100 + Log[i].month = k
                              /\ Log[i].type = type
                           THEN Log[i].amount ELSE 0)
    IN S[Len(Log)]

\* Every month of the log has an income and an expense record.
WholeMonths ==
    \A k \in LogKeys : \A type \in {"income", "expense"} :
        \E i \in 1..Len(Log) :
            Log[i].year * 100 + Log[i].month = k /\ Log[i].type = type

\* The place of key k among the keys in date order.
Place(k) == Cardinality({j \in LogKeys : j < k}) + 1

\* C9: for a log whose months all have income and expense records,
\* prepare_training_data with n >= 2 month keys returns n-1 pairs in date
\* order, pair k with the features (income, expense, calendar month,
\* income - expense) of the k-th month and the expense total of the next
\* month as its target; with one month key it returns no training set.
C9_ConsecutiveMonthPairs ==
    (ret.op = "prepare" /\ WholeMonths) =>
        IF Cardinality(LogKeys) < 2 THEN ret.kind = "None"
        ELSE /\ ret.kind = "pairs"
             /\ Len(ret.pairs) = Cardinality(LogKeys) - 1
             /\ \A k \in LogKeys :
                   /\ Place(k) < Cardinality(LogKeys) =>
                        ret.pairs[Place(k)][1] =
                           << LogTotal(k, "income"), LogTotal(k, "expense"), k % 100,
                              LogTotal(k, "income") - LogTotal(k, "expense") >>
                   /\ Place(k) > 1 =>
                        ret.pairs[Place(k) - 1][2] = LogTotal(k, "expense")

\* C9 witness: January (1000, 800) and February (1100, 750) have given the one
\* pair (1000, 800, 1, 200) -> 750.
C9_Witness ==
    /\ ret.op = "prepare" /\ WholeMonths
    /\ LogKeys = {202401, 202402}
    /\ ret.pairs = << << <<1000, 800, 1, 200>>, 750 >> >>

\* ------------------------------------------------------------------------
\* The update flow (update_user_model.py)
\* ------------------------------------------------------------------------

\* update_user_model.py 29: should_retrain(min_transactions=10), and the
\* default min_days of should_retrain (personalized_model.py 124).
UpdateMinTransactions == 10
DefaultMinDays == 7

\* update_user_model.py 12-42 at time t on directory d with the frame df of
\* the data file: construct, add_transaction_data, should_retrain, and
\* train_model when it says so. The result is the directory, whether a
\* training run was started, and train_model's outcome.
UpdateUserModel(d, b, df, t, fitted, fault) ==
    LET c == Construct(d, b)
        a == AddTransactionData(c.md, c.d, df)
    IN IF ShouldRetrain(a.md, a.d.data, t, UpdateMinTransactions, DefaultMinDays)
       THEN LET tr == TrainModel(a.md, a.d, PrepareTrainingData(a.d.data), t,
                                 fitted, fault)
            IN [d |-> tr.d, started |-> TRUE, why |-> tr.why]
       ELSE [d |-> a.d, started |-> FALSE, why |-> "skipped"]

\* python update_user_model.py <user_id> <data_file>, a process of its own,
\* with Batches[b] in the data file; path is "skipped" when no training run
\* was started and the outcome of train_model otherwise.
Update(b) ==
    /\ adds < MaxAdds
    /\ \E fitted \in FitRegressors : \E fault \in TrainFaults :
          LET u == UpdateUserModel(disk, base, Batches[b], now, fitted, fault)
          IN /\ disk' = u.d
             /\ ret' = Ret("update", "bool", 1, u.why, <<b>>, <<>>)
    /\ adds' = adds + 1
    /\ UNCHANGED <<base, inst, now>>

NextUpdate ==
    \/ \E b \in 1..Len(Batches) : Update(b)
    \/ \E d \in TickSteps : Tick(d)

SpecUpdate == Init /\ [][NextUpdate]_vars

\* ------------------------------------------------------------------------
\* Claims about the update flow (SpecUpdate)
\* ------------------------------------------------------------------------

\* C11: the update flow starts a training run only when the user's
\* transaction count is at least 20 and last_trained is unset or at least 7
\* whole days old; with fewer than 20 transactions no training run is started
\* and the training count stays as it was.
C11_UpdateTrainsFromTwenty ==
    [][ret'.op = "update" =>
         /\ ret'.path # "skipped" =>
               /\ Persisted'.transaction_count >= 20
               /\ \/ Persisted.last_trained = Null
                  \/ (now - Persisted.last_trained) \div TicksPerDay >= 7
         /\ Persisted'.transaction_count < 20 =>
               /\ ret'.path = "skipped"
               /\ Persisted'.training_count = Persisted.training_count]_vars

\* ------------------------------------------------------------------------
\* Further claims about the aggregator (SpecAggregate)
\* ------------------------------------------------------------------------

\* C12: when a month of the log lacks its income or its expense records,
\* prepare_training_data returns no training set, and no pair in which the
\* missing total counts as 0.
C12_MissingTypeGivesNoPairs ==
    (ret.op = "prepare" /\ ~WholeMonths) => (ret.kind = "None" /\ ret.pairs = <<>>)

\* ------------------------------------------------------------------------
\* Further claims about the transaction log (SpecStore)
\* ------------------------------------------------------------------------

\* C13: the log is append-only: after an add_transaction_data call the
\* records that were in the persisted log are still there, in the same order
\* and ahead of the added ones, and the persisted transaction count has not
\* decreased.
C13_LogAppendOnly ==
    [][ret'.op = "add" =>
         /\ Len(disk'.data.rows) >= Len(disk.data.rows)
         /\ SubSeq(disk'.data.rows, 1, Len(disk.data.rows)) = disk.data.rows
         /\ Persisted'.transaction_count >= Persisted.transaction_count]_vars

\* ------------------------------------------------------------------------
\* Processes running side by side on one user's directory
\* ------------------------------------------------------------------------

\* The update/train processes of the user, and the prediction process.
Workers == {"p1", "p2"}
Reader == "q"

\* The frames the concurrent processes add, and the observation predicted.
RaceBatches == << Frame(TRUE, GenRows(1, 12)), Frame(TRUE, GenRows(13, 24)) >>
RaceObservations == {Obs(50000, 4000, 5, 10000)}

\* personalized_model.py 213-222: train_model up to the loads of the user's
\* regressor and scaler; it returns False on insufficient data or a failed load.
TrainLoad(p) ==
    /\ inst[p].alive /\ inst[p].pc = "idle"
    /\ inst[p].metadata.training_count < MaxTrainings
    /\ LET xy == PrepareTrainingData(disk.data)
       IN IF xy.none \/ Len(xy.pairs) < 3
          THEN /\ ret' = Ret("train", "bool", 0, "insufficient", <<>>, <<>>)
               /\ inst' = inst
          ELSE IF ~Loads(disk.model) \/ ~Loads(disk.scaler)
          THEN /\ ret' = Ret("train", "bool", 0, "load", <<>>, <<>>)
               /\ inst' = inst
          ELSE /\ ret' = Ret("train_load", "none", 0, "none", <<>>, <<>>)
               /\ inst' = [inst EXCEPT ![p].pc = "loaded", ![p].held = disk.model.w]
    /\ UNCHANGED <<base, disk, now, adds>>

\* personalized_model.py 225-245: model.fit and model.save of the regressor
\* the process holds.
TrainSave(p) ==
    /\ inst[p].pc = "loaded"
    /\ \E fitted \in FitRegressors : \E fault \in {"none", "fit", "save_model"} :
          IF fault # "none"
          THEN /\ ret' = Ret("train", "bool", 0, fault, <<>>, <<>>)
               /\ inst' = [inst EXCEPT ![p].pc = "idle"]
               /\ disk' = disk
          ELSE /\ ret' = Ret("train_save", "none", 0, "none", <<>>, <<>>)
               /\ inst' = [inst EXCEPT ![p].pc = "saved", ![p].held = fitted]
               /\ disk' = [disk EXCEPT !.model = Ok(fitted)]
    /\ UNCHANGED <<base, now, adds>>

\* personalized_model.py 248-279: the update of self.metadata and
\* _save_metadata, which writes the process's copy of the metadata.
TrainFinish(p) ==
    /\ inst[p].pc = "saved"
    /\ \E fault \in {"none", "save_meta"} :
          LET m == [UpdateWeights([inst[p].metadata EXCEPT !.last_trained = now,
                                                          !.training_count = @ + 1])
                    EXCEPT !.metrics = inst[p].held]
          IN /\ inst' = [inst EXCEPT ![p].pc = "idle", ![p].metadata = m]
             /\ IF fault = "save_meta"
                THEN /\ disk' = disk
                     /\ ret' = Ret("train", "bool", 0, fault, <<>>, <<>>)
                ELSE /\ disk' = [disk EXCEPT !.meta = [exists |-> TRUE, md |-> m]]
                     /\ ret' = Ret("train", "bool", 1, "none", <<>>, <<>>)
    /\ UNCHANGED <<base, now, adds>>

\* personalized_predict.py 16 -> personalized_model.py 29, 37: the prediction
\* process finds no metadata.json (metadata_path.exists() is False).
PredictCheck(q) ==
    /\ inst[q].pc = "idle"
    /\ ~disk.meta.exists
    /\ inst' = [inst EXCEPT ![q].pc = "creating"]
    /\ ret' = Ret("predict_check", "none", 0, "none", <<>>, <<>>)
    /\ UNCHANGED <<base, disk, now, adds>>

\* personalized_model.py 42-55, 32-33 and personalized_predict.py 19-27: the
\* prediction process writes the default metadata, copies the base model if
\* the pair is not there, and predicts.
PredictCreate(q, obs) ==
    /\ inst[q].pc = "creating"
    /\ LET d1 == [disk EXCEPT !.meta = [exists |-> TRUE, md |-> DefaultMetadata]]
           d2 == IF ~Exists(d1.model) \/ ~Exists(d1.scaler)
                 THEN InitializeFromBaseModel(d1, base).d ELSE d1
           r == PersonalizedPredict(DefaultMetadata, d2, base, obs)
       IN /\ disk' = d2
          /\ ret' = RetPrediction("predict_entry", r, obs)
    /\ inst' = [inst EXCEPT ![q].pc = "idle"]
    /\ UNCHANGED <<base, now, adds>>

InitConcurrent ==
    /\ base \in LifeBaseStates
    /\ disk = EmptyDir
    /\ inst = [p \in Workers \cup {Reader} |-> NoInstance]
    /\ now = 0
    /\ adds = 0
    /\ ret = Start

NextConcurrent ==
    \/ \E p \in Workers : New(p)
    \/ \E p \in Workers : inst[p].pc = "idle" /\ Release(p)
    \/ \E p \in Workers : \E b \in 1..Len(RaceBatches) :
          inst[p].pc = "idle" /\ Add(p, RaceBatches, b, MaxAdds)
    \/ \E p \in Workers : TrainLoad(p)
    \/ \E p \in Workers : TrainSave(p)
    \/ \E p \in Workers : TrainFinish(p)
    \/ \E p \in Workers : \E obs \in RaceObservations :
          inst[p].pc = "idle" /\ Predict(p, obs)
    \/ \E obs \in RaceObservations : inst[Reader].pc = "idle" /\ PredictEntry(obs)
    \/ PredictCheck(Reader)
    \/ \E obs \in RaceObservations : PredictCreate(Reader, obs)

SpecConcurrent == InitConcurrent /\ [][NextConcurrent]_vars

\* ------------------------------------------------------------------------
\* Claims about concurrent processes (SpecConcurrent)
\* ------------------------------------------------------------------------

\* The process is between the load of the user's regressor and the save of
\* the user's metadata.
InTraining(p) == inst[p].pc \in {"loaded", "saved"}

\* C14: no two processes of the user are at the same time between loading
\* the user's regressor and saving the user's metadata, and every successful
\* training run adds one to the persisted training count.
C14_TrainingMutuallyExclusive ==
    /\ [](\A p \in Workers : \A o \in Workers \ {p} : ~(InTraining(p) /\ InTraining(o)))
    /\ [][(ret'.op = "train" /\ ret'.val = 1)
          => Persisted'.training_count = Persisted.training_count + 1]_vars

\* C15: a step of a prediction (the predict method, and the prediction entry
\* point with the construction of its instance) leaves the user's persisted
\* metadata as the other operations produced it; for a new user the metadata
\* it creates is the default.
C15_PredictionsReadOnly ==
    [][ret'.op \in {"predict", "predict_check", "predict_entry"}
       => Persisted' = Persisted]_vars

====
